---- MODULE Spec2Model ----
(***************************************************************************)
(* Model of the parsing and climatology core of sotc_graphics:             *)
(*   src/soz.py  read_data      (fixed-format ASCII grid dump)              *)
(*   src/slp.py  read_hadslp    (monthly year/month header + body blocks)   *)
(*   src/slp.py  run_all_plots  (HadSLP climatology, anomalies, tiling)     *)
(*   src/slp.py  read_soi       (annual rows of monthly columns)            *)
(* Each routine is a sequential state machine with its own program         *)
(* counter; each has its own specification (SpecGrid, SpecHad, ...).       *)
(***************************************************************************)
EXTENDS Integers, Sequences, FiniteSets, TLC

VARIABLES
    \* ---- read_data (src/soz.py) ----
    g_pc,       \* "read" | "loop" | "mask" | "done" | "error"
    g_file,     \* the rows of the file after the skipped header (token lists)
    indata,     \* what np.genfromtxt returned: [ndim, rows]
    g_row,      \* index of the next row of indata the for loop visits
    this_lat,   \* the token accumulator
    tl,         \* the number of latitude bands committed
    data,       \* the (n_lat, n_lon) array: cell -> [v, m]
    g_err,      \* the exception that ended read_data, "" if none
    \* ---- read_hadslp (src/slp.py) ----
    h_pc,       \* "loop" | "eof" | "convert" | "times" | "done" | "error"
    infile,     \* the lines read so far, each a sequence of tokens
    years,      \* the header years
    months,     \* the header months
    all_months, \* the closed blocks (lists of rows of tokens)
    hpa,        \* all_months as the converted array: [ok, shape, a]
    this_month, \* the open block: [bound, rows]; unbound before a header
    times,      \* the day offsets of the returned cube
    h_err,      \* the exception that ended read_hadslp, "" if none
    \* ---- run_all_plots, global map and polar figures (src/slp.py) ----
    p_pc,        \* "extract" | "clim" | "mean" | "final" | "annual" | "tile" | "done" | "error"
    cube,        \* the HadSLP series at one grid cell: entries [t, v, m]; <<>> is None
    clim_cube,   \* the entries of the reference period
    clim_data,   \* clim_cube reshaped to (years, 12)
    climatology, \* the 12 means: entries [k, v, m]
    nyears,      \* the 12 counts of contributing years
    final_year,  \* the final year's anomalies: entries [t, v, m, ck]
    annual,      \* the annual mean anomaly: [v, m]
    nmonths,     \* the count of non-masked months of the final year
    clim_tiled,  \* the climatology tiled and truncated
    anoms,       \* the anomalies of the whole series: entries [t, v, m, ck]
    p_err,       \* the exception that ended the computation, "" if none
    \* ---- read_soi (src/slp.py) ----
    soi_pc,      \* "strict" | "retry" | "split" | "done" | "error"
    soi_file,    \* the rows of the file after the skipped header (token lists)
    all_data,    \* what np.genfromtxt returned: [ok, ndim, rows]
    soi_tries,   \* the number of calls of np.genfromtxt so far
    soi_years,   \* all_data[:,0]
    soi_data,    \* all_data[:,1:].reshape(-1)
    soi_times,   \* np.arange(years[0], years[-1]+1, 1/12.), in twelfths of a year
    soi_err      \* the exception that ended read_soi, "" if none

gridVars == <<g_pc, g_file, indata, g_row, this_lat, tl, data, g_err>>
hadVars  == <<h_pc, infile, years, months, all_months, hpa, this_month, times, h_err>>

pipeVars == <<p_pc, cube, clim_cube, clim_data, climatology, nyears, final_year,
              annual, nmonths, clim_tiled, anoms, p_err>>

soiVars == <<soi_pc, soi_file, all_data, soi_tries, soi_years, soi_data, soi_times, soi_err>>

vars == <<gridVars, hadVars, pipeVars, soiVars>>

\* The variables of the other routines, which a routine leaves alone.
gridOthers == <<hadVars, pipeVars, soiVars>>
hadOthers  == <<gridVars, pipeVars, soiVars>>
pipeOthers == <<gridVars, hadVars, soiVars>>
soiOthers  == <<gridVars, hadVars, pipeVars>>

\* ------------------------------------------------------------------------
\* Generic helpers
\* ------------------------------------------------------------------------
Abs(x) == IF x < 0 THEN -x ELSE x

RECURSIVE GCD(_, _)
GCD(a, b) == IF b = 0 THEN a ELSE GCD(b, a % b)

\* An exact rational n/d (d > 0) in lowest terms: the model's real number.
Rat(n, d) ==
    LET g == GCD(Abs(n), d) IN [n |-> n \div g, d |-> d \div g]

RatAdd(a, b) == Rat(a.n * b.d + b.n * a.d, a.d * b.d)
RatSub(a, b) == Rat(a.n * b.d - b.n * a.d, a.d * b.d)
RatZero == Rat(0, 1)

RECURSIVE Flatten(_)
Flatten(ss) == IF ss = <<>> THEN <<>> ELSE Head(ss) \o Flatten(Tail(ss))

\* ========================================================================
\* read_data: src/soz.py
\* ========================================================================

\* Axis lengths.  The source fixes 180 latitudes and 288 longitudes; the
\* model keeps the algorithm and scales the two axes down.
NLat == 2
NLon == 4

\* Widest row and longest file that the model enumerates: one token wider
\* than a band, one row more than a file of one-token rows needs.
MaxW    == NLon + 1
MaxRows == NLat * NLon + 1

\* The sentinel threshold of the mask (data <= -999.000).
SENTINEL == -999

\* Token number k (0-based) of a synthetic dump is the marker k+1, so every
\* token is distinct and none equals the 0 of the zero-initialised array;
\* one chosen position may instead hold a value around the sentinel.
SpecialVals == {SENTINEL - 1, SENTINEL, SENTINEL + 1}

Tok(k, sp) == IF sp.on /\ sp.pos = k THEN sp.val ELSE k + 1

\* A file of n rows of w tokens; with short, the last row lacks one token.
RowWidth(w, n, short, r) == IF short /\ r = n THEN w - 1 ELSE w

FileRows(w, n, short, sp) ==
    [r \in 1..n |->
        [c \in 1..RowWidth(w, n, short, r) |-> Tok((r - 1) * w + (c - 1), sp)]]

Specials ==
    {[on |-> FALSE, pos |-> 0, val |-> 0]} \cup
    {[on |-> TRUE, pos |-> p, val |-> v] : p \in 0..(NLat * NLon - 1), v \in SpecialVals}

GridFiles ==
    {FileRows(w, n, short, sp) :
        w \in 1..MaxW, n \in 0..MaxRows, short \in BOOLEAN, sp \in Specials}

\* np.genfromtxt(filename, dtype=float, skip_header=4): rows of unequal
\* width raise ValueError; the result is squeezed, so a single row or a
\* single column gives a 1-D array (0-D for one token) and an empty file a
\* 1-D array of size 0.
Ragged(rows) == \E i, j \in 1..Len(rows) : Len(rows[i]) # Len(rows[j])

GenFromTxt(rows) ==
    IF Ragged(rows) THEN [ok |-> FALSE, ndim |-> 0, rows |-> <<>>]
    ELSE IF Len(rows) = 0 THEN [ok |-> TRUE, ndim |-> 1, rows |-> <<>>]
    ELSE IF Len(rows) = 1 /\ Len(rows[1]) = 1 THEN [ok |-> TRUE, ndim |-> 0, rows |-> rows]
    ELSE IF Len(rows) = 1 \/ Len(rows[1]) = 1 THEN [ok |-> TRUE, ndim |-> 1, rows |-> rows]
    ELSE [ok |-> TRUE, ndim |-> 2, rows |-> rows]

Cells == (0..(NLat - 1)) \X (0..(NLon - 1))

\* data = np.ma.zeros((n_lat, n_lon))
ZeroData == [c \in Cells |-> [v |-> 0, m |-> FALSE]]

\* data[tl, :] = this_lat
CommitBand(d, band, acc) ==
    [c \in Cells |-> IF c[1] = band THEN [v |-> acc[c[2] + 1], m |-> FALSE] ELSE d[c]]

\* np.ma.masked_where(data <= -999.000, data)
MaskedWhereSentinel(d) ==
    [c \in Cells |-> [v |-> d[c].v, m |-> d[c].m \/ d[c].v <= SENTINEL]]

\* read_data not running
GridIdle ==
    /\ g_pc = "off"
    /\ g_file = <<>>
    /\ indata = [ok |-> TRUE, ndim |-> 1, rows |-> <<>>]
    /\ g_row = 1
    /\ this_lat = <<>>
    /\ tl = 0
    /\ data = ZeroData
    /\ g_err = ""

InitGrid ==
    /\ g_pc = "read"
    /\ g_file \in GridFiles
    /\ indata = [ok |-> TRUE, ndim |-> 1, rows |-> <<>>]
    /\ g_row = 1
    /\ this_lat = <<>>
    /\ tl = 0
    /\ data = ZeroData
    /\ g_err = ""

\* indata = np.genfromtxt(...)
GridRead ==
    /\ g_pc = "read"
    /\ LET got == GenFromTxt(g_file) IN
        IF ~got.ok
        THEN /\ g_pc' = "error"
             /\ g_err' = "ValueError"
             /\ UNCHANGED indata
        ELSE /\ indata' = got
             /\ g_err' = g_err
             /\ g_pc' = "loop"
    /\ UNCHANGED <<g_file, g_row, this_lat, tl, data>>
    /\ UNCHANGED gridOthers

\* one iteration of: for row in indata
GridLoopRow ==
    /\ g_pc = "loop"
    /\ indata.ndim = 2
    /\ g_row <= Len(indata.rows)
    /\ LET acc == this_lat \o indata.rows[g_row] IN
        IF Len(acc) = NLon
        THEN IF tl >= NLat
             THEN /\ g_pc' = "error"
                  /\ g_err' = "IndexError"
                  /\ this_lat' = acc
                  /\ UNCHANGED <<tl, data, g_row>>
             ELSE /\ data' = CommitBand(data, tl, acc)
                  /\ tl' = tl + 1
                  /\ this_lat' = <<>>
                  /\ g_row' = g_row + 1
                  /\ UNCHANGED <<g_pc, g_err>>
        ELSE /\ this_lat' = acc
             /\ g_row' = g_row + 1
             /\ UNCHANGED <<g_pc, g_err, tl, data>>
    /\ UNCHANGED <<g_file, indata>>
    /\ UNCHANGED gridOthers

\* a squeezed array: iterating a 0-D array, or the elements of a 1-D array
\* ([r for r in row] on a scalar), raises TypeError
GridLoopScalar ==
    /\ g_pc = "loop"
    /\ indata.ndim < 2
    /\ Len(indata.rows) > 0
    /\ g_pc' = "error"
    /\ g_err' = "TypeError"
    /\ UNCHANGED <<g_file, indata, g_row, this_lat, tl, data>>
    /\ UNCHANGED gridOthers

\* the loop is exhausted
GridLoopEnd ==
    /\ g_pc = "loop"
    /\ g_row > Len(indata.rows)
    /\ g_pc' = "mask"
    /\ UNCHANGED <<g_file, indata, g_row, this_lat, tl, data, g_err>>
    /\ UNCHANGED gridOthers

\* data = np.ma.masked_where(...); make the cube; return it
GridMaskReturn ==
    /\ g_pc = "mask"
    /\ data' = MaskedWhereSentinel(data)
    /\ g_pc' = "done"
    /\ UNCHANGED <<g_file, indata, g_row, this_lat, tl, g_err>>
    /\ UNCHANGED gridOthers


\* ========================================================================
\* read_hadslp: src/slp.py
\* ========================================================================

\* The longest input, in lines, that the model enumerates.
MaxLines == 4

\* A line is the sequence of its whitespace-separated tokens; a token is a
\* numeral (num, with its value v) or some other text.
NumTok(x) == [num |-> TRUE, v |-> x]
TextTok   == [num |-> FALSE, v |-> 0]

\* The (year, month) pairs of the header lines the model draws from: the
\* February/March boundary of a century non-leap year, of a century leap
\* year and of an ordinary leap year, a December/January boundary, and a
\* month number no calendar has.
HeaderPairs ==
    { <<1900, 2>>, <<1900, 3>>, <<2000, 2>>, <<2000, 3>>,
      <<2015, 12>>, <<2016, 1>>, <<2016, 2>>, <<2016, 3>>, <<2016, 13>> }

\* The widths of the body rows the model draws from (0: a blank line).
BodyWidths == {0, 1, 3}

\* Token c of the body row on line ll is a marker unique in the file.
BodyTok(ll, c) == 1000 * (ll + 1) + c

BodyLine(ll, w) == [c \in 1..w |-> NumTok(BodyTok(ll, c))]

\* The lines that may stand at (0-based) line number ll.
HadLines(ll) ==
    { <<NumTok(h[1]), NumTok(h[2])>> : h \in HeaderPairs }
    \cup { <<TextTok, TextTok>> }
    \cup { BodyLine(ll, w) : w \in BodyWidths }
    \cup { <<NumTok(BodyTok(ll, 1)), TextTok, NumTok(BodyTok(ll, 3))>> }

InitialThisMonthEmpty == [bound |-> TRUE, rows |-> <<>>]

\* this_month before the first assignment: the name is not bound (the
\* function never assigns it ahead of the loop).
InitialThisMonth == [bound |-> FALSE, rows |-> <<>>]

\* read_hadslp not running
HadIdle ==
    /\ h_pc = "off"
    /\ infile = <<>>
    /\ years = <<>>
    /\ months = <<>>
    /\ all_months = <<>>
    /\ hpa = [ok |-> TRUE, shape |-> <<0, 0, 0>>, a |-> <<>>]
    /\ this_month = InitialThisMonth
    /\ times = <<>>
    /\ h_err = ""

InitHad ==
    /\ h_pc = "loop"
    /\ infile = <<>>
    /\ years = <<>>
    /\ months = <<>>
    /\ all_months = <<>>
    /\ hpa = [ok |-> TRUE, shape |-> <<0, 0, 0>>, a |-> <<>>]
    /\ this_month = InitialThisMonth
    /\ times = <<>>
    /\ h_err = ""

HadFail(e) ==
    /\ h_pc' = "error"
    /\ h_err' = e

\* one iteration of: for ll, line in enumerate(infile)
HadReadLine ==
    /\ h_pc = "loop"
    /\ Len(infile) < MaxLines
    /\ \E line \in HadLines(Len(infile)) :
        LET ll == Len(infile) IN
        /\ infile' = Append(infile, line)
        /\ IF Len(line) = 2
           THEN \* years += [int(..)]; months += [int(..)]
                IF ~line[1].num
                THEN /\ HadFail("ValueError")
                     /\ UNCHANGED <<years, months, all_months, this_month>>
                ELSE IF ~line[2].num
                THEN /\ HadFail("ValueError")
                     /\ years' = Append(years, line[1].v)
                     /\ UNCHANGED <<months, all_months, this_month>>
                ELSE /\ years' = Append(years, line[1].v)
                     /\ months' = Append(months, line[2].v)
                     /\ IF ll # 0
                        THEN IF this_month.bound
                             THEN /\ all_months' = Append(all_months, this_month.rows)
                                  /\ this_month' = [bound |-> TRUE, rows |-> <<>>]
                                  /\ UNCHANGED <<h_pc, h_err>>
                             ELSE /\ HadFail("UnboundLocalError")
                                  /\ UNCHANGED <<all_months, this_month>>
                        ELSE /\ this_month' = [bound |-> TRUE, rows |-> <<>>]
                             /\ UNCHANGED <<all_months, h_pc, h_err>>
           ELSE \* this_month += [line.split()]
                IF this_month.bound
                THEN /\ this_month' = [bound |-> TRUE, rows |-> Append(this_month.rows, line)]
                     /\ UNCHANGED <<years, months, all_months, h_pc, h_err>>
                ELSE /\ HadFail("UnboundLocalError")
                     /\ UNCHANGED <<years, months, all_months, this_month>>
    /\ UNCHANGED <<hpa, times>>
    /\ UNCHANGED hadOthers

HadEndOfFileDropLast ==
    /\ h_pc = "loop"
    /\ IF this_month.bound
       THEN /\ h_pc' = "convert"
            /\ UNCHANGED <<all_months, h_err>>
       ELSE /\ HadFail("UnboundLocalError")
            /\ UNCHANGED all_months
    /\ UNCHANGED <<infile, years, months, hpa, this_month, times>>
    /\ UNCHANGED hadOthers

\* the file is exhausted: all_months += [this_month]
HadEndOfFile ==
    /\ h_pc = "loop"
    /\ IF this_month.bound
       THEN /\ all_months' = Append(all_months, this_month.rows)
            /\ h_pc' = "convert"
            /\ UNCHANGED h_err
       ELSE /\ HadFail("UnboundLocalError")
            /\ UNCHANGED all_months
    /\ UNCHANGED <<infile, years, months, hpa, this_month, times>>
    /\ UNCHANGED hadOthers

\* np.array(all_months).astype(int) succeeds on a rectangular nesting of
\* numerals; np.swapaxes(., 1, 2) needs three axes, so at least one row in
\* the blocks.
BlockRows(blocks)  == Len(blocks[1])
BlockWidth(blocks) == Len(blocks[1][1])

Rectangular(blocks) ==
    /\ \A t \in 1..Len(blocks) : Len(blocks[t]) = BlockRows(blocks)
    /\ BlockRows(blocks) >= 1
    /\ \A t \in 1..Len(blocks) : \A r \in 1..BlockRows(blocks) :
            Len(blocks[t][r]) = BlockWidth(blocks)

AllNumerals(blocks) ==
    \A t \in 1..Len(blocks) : \A r \in 1..Len(blocks[t]) :
        \A c \in 1..Len(blocks[t][r]) : blocks[t][r][c].num

ConvertBlocksNoFlip(blocks) ==
    IF ~(Rectangular(blocks) /\ AllNumerals(blocks))
    THEN [ok |-> FALSE, shape |-> <<0, 0, 0>>, a |-> <<>>]
    ELSE LET R == BlockRows(blocks)
             W == BlockWidth(blocks)
         IN [ok |-> TRUE,
             shape |-> <<Len(blocks), W, R>>,
             a |-> [t \in 1..Len(blocks) |->
                     [c \in 1..W |->
                       [k \in 1..R |-> Rat(blocks[t][k][c].v, 100)]]]]

\* all_months = np.array(all_months).astype(int) / 100.
\* all_months = np.swapaxes(all_months, 1, 2)
\* all_months = all_months[:, :, ::-1]
\* The result has shape (blocks, width, rows); a[t][c][k] is 1-based.
ConvertBlocks(blocks) ==
    IF ~(Rectangular(blocks) /\ AllNumerals(blocks))
    THEN [ok |-> FALSE, shape |-> <<0, 0, 0>>, a |-> <<>>]
    ELSE LET R == BlockRows(blocks)
             W == BlockWidth(blocks)
         IN [ok |-> TRUE,
             shape |-> <<Len(blocks), W, R>>,
             a |-> [t \in 1..Len(blocks) |->
                     [c \in 1..W |->
                       [k \in 1..R |-> Rat(blocks[t][R + 1 - k][c].v, 100)]]]]

HadConvert ==
    /\ h_pc = "convert"
    /\ LET got == ConvertBlocks(all_months) IN
        IF got.ok
        THEN /\ hpa' = got
             /\ h_pc' = "times"
             /\ UNCHANGED h_err
        ELSE /\ HadFail("ValueError")
             /\ UNCHANGED hpa
    /\ UNCHANGED <<infile, years, months, all_months, this_month, times>>
    /\ UNCHANGED hadOthers

\* dt.datetime(y, m, 1): the proleptic Gregorian ordinal of the first day
\* of the month; months outside 1..12 and years outside 1..9999 raise
\* ValueError.
IsLeap(y) == (y % 4 = 0) /\ ((y % 100 # 0) \/ (y % 400 = 0))

DaysBeforeMonth(y, m) ==
    <<0, 31, 59, 90, 120, 151, 181, 212, 243, 273, 304, 334>>[m]
    + (IF m > 2 /\ IsLeap(y) THEN 1 ELSE 0)

ValidDate(y, m) == y \in 1..9999 /\ m \in 1..12

FirstOfMonthOrdinal30(y, m) == 30 * (12 * (y - 1) + (m - 1)) + 1

FirstOfMonthOrdinal(y, m) ==
    LET p == y - 1 IN
        p * 365 + (p \div 4) - (p \div 100) + (p \div 400) + DaysBeforeMonth(y, m) + 1

\* times = [(datetime(years[i], months[i], 1) - datetime(years[0], months[0], 1)).days ...]
DayOffsets(ys, ms) ==
    [i \in 1..Len(ys) |->
        FirstOfMonthOrdinal(ys[i], ms[i]) - FirstOfMonthOrdinal(ys[1], ms[1])]

HadTimes ==
    /\ h_pc = "times"
    /\ IF \A i \in 1..Len(years) : ValidDate(years[i], months[i])
       THEN /\ times' = DayOffsets(years, months)
            /\ h_pc' = "done"
            /\ UNCHANGED h_err
       ELSE /\ HadFail("ValueError")
            /\ UNCHANGED times
    /\ UNCHANGED <<infile, years, months, all_months, hpa, this_month>>
    /\ UNCHANGED hadOthers

NextHad == HadReadLine \/ HadEndOfFile \/ HadConvert \/ HadTimes

\* ========================================================================
\* read_soi: src/slp.py
\* ========================================================================

\* The step of the times is 1/12. of a year.
PERIODS_PER_YEAR == 12

\* The longest file, in data rows, that the model enumerates.
MaxSoiRows == 4

\* The widths of the rows the model draws from: a year and 12 monthly
\* values, a year and 4 values (a year in progress), a lone year.
SoiWidths == {PERIODS_PER_YEAR + 1, 5, 1}

\* From one row to the next the year goes up by one, skips one, or goes
\* back by one.
YearSteps == {1, 2, -1}

FirstSoiYear == 1951

\* The year of row r when the years move by the given steps.
RECURSIVE SoiYear(_, _)
SoiYear(steps, r) == IF r = 1 THEN FirstSoiYear ELSE SoiYear(steps, r - 1) + steps[r - 1]

\* Row r: its year, then values that are distinct throughout the file.
SoiRow(steps, r, w) ==
    [c \in 1..w |-> IF c = 1 THEN SoiYear(steps, r) ELSE 100 * r + (c - 1)]

SoiFile(n, widths, steps) == [r \in 1..n |-> SoiRow(steps, r, widths[r])]

\* np.genfromtxt(..., skip_footer=k): the last k rows are not parsed
SkipFooter(rows, k) == SubSeq(rows, 1, IF Len(rows) >= k THEN Len(rows) - k ELSE 0)

\* np.arange(y0, y1 + 1, 1/12.): 12 * (y1 + 1 - y0) values from y0 in steps
\* of a twelfth (none when y1 + 1 <= y0); a time is held as its number of
\* twelfths.
Arange(y0, y1) ==
    LET n == IF y1 + 1 > y0 THEN PERIODS_PER_YEAR * (y1 + 1 - y0) ELSE 0
    IN  [i \in 1..n |-> PERIODS_PER_YEAR * y0 + (i - 1)]

\* read_soi not running
SoiIdle ==
    /\ soi_pc = "off"
    /\ soi_file = <<>>
    /\ all_data = [ok |-> TRUE, ndim |-> 1, rows |-> <<>>]
    /\ soi_tries = 0
    /\ soi_years = <<>>
    /\ soi_data = <<>>
    /\ soi_times = <<>>
    /\ soi_err = ""

InitSoi ==
    /\ soi_pc = "strict"
    /\ \E n \in 0..MaxSoiRows :
         \E widths \in [1..n -> SoiWidths], steps \in [1..(n - 1) -> YearSteps] :
            soi_file = SoiFile(n, widths, steps)
    /\ all_data = [ok |-> TRUE, ndim |-> 1, rows |-> <<>>]
    /\ soi_tries = 0
    /\ soi_years = <<>>
    /\ soi_data = <<>>
    /\ soi_times = <<>>
    /\ soi_err = ""

\* try: all_data = np.genfromtxt(filename, dtype=float, skip_header=9)
SoiStrict ==
    /\ soi_pc = "strict"
    /\ soi_tries' = soi_tries + 1
    /\ LET got == GenFromTxt(soi_file) IN
        IF got.ok
        THEN /\ all_data' = got
             /\ soi_pc' = "split"
        ELSE /\ soi_pc' = "retry"
             /\ UNCHANGED all_data
    /\ UNCHANGED <<soi_file, soi_years, soi_data, soi_times, soi_err>>
    /\ UNCHANGED soiOthers

\* except ValueError: all_data = np.genfromtxt(..., skip_footer=1)
SoiRetry ==
    /\ soi_pc = "retry"
    /\ soi_tries' = soi_tries + 1
    /\ LET got == GenFromTxt(SkipFooter(soi_file, 1)) IN
        IF got.ok
        THEN /\ all_data' = got
             /\ soi_pc' = "split"
             /\ UNCHANGED soi_err
        ELSE /\ soi_pc' = "error"
             /\ soi_err' = "ValueError"
             /\ UNCHANGED all_data
    /\ UNCHANGED <<soi_file, soi_years, soi_data, soi_times>>
    /\ UNCHANGED soiOthers

\* years = all_data[:,0]; data = all_data[:,1:]
\* times = np.arange(years[0], years[-1]+1, 1/12.)
\* return utils.Timeseries("SOI", times, data.reshape(-1))
\* all_data[:,0] needs two axes: a squeezed array raises IndexError.
SoiSplit ==
    /\ soi_pc = "split"
    /\ IF all_data.ndim # 2
       THEN /\ soi_pc' = "error"
            /\ soi_err' = "IndexError"
            /\ UNCHANGED <<soi_years, soi_data, soi_times>>
       ELSE LET rows == all_data.rows
                ys   == [r \in 1..Len(rows) |-> rows[r][1]]
            IN  /\ soi_years' = ys
                /\ soi_data' = Flatten([r \in 1..Len(rows) |-> Tail(rows[r])])
                /\ soi_times' = Arange(ys[1], ys[Len(ys)])
                /\ soi_pc' = "done"
                /\ UNCHANGED soi_err
    /\ UNCHANGED <<soi_file, all_data, soi_tries>>
    /\ UNCHANGED soiOthers

NextSoi == SoiStrict \/ SoiRetry \/ SoiSplit

\* ========================================================================
\* run_all_plots, lines 349-399 of src/slp.py: the 1981-2010 climatology of
\* the HadSLP cube, the final year's annual anomaly and the tiled
\* anomalies.  Every array operation there acts cell by cell, so the model
\* follows one grid cell: a series entry is [t, v, m] with t the calendar
\* month counted from January of year 0, v the value and m the mask bit.
\* ========================================================================

CYCLE      == 12
MIN_YEARS  == 15
MIN_MONTHS == 6
START_YEAR == 1900
CLIM_START == 1981
CLIM_END   == 2011
YEAR       == 2016

Jan(y) == 12 * y
MonthOf(t) == t % 12

\* utils.periodConstraint(cube, t1, t2): the times in [t1, t2)
PeriodConstraint(t1, t2, t) == t1 <= t /\ t < t2

\* cube.extract(constraint): the matching entries in order; None (here the
\* empty sequence) when nothing matches
Extract(c, t1, t2) == SelectSeq(c, LAMBDA e : PeriodConstraint(t1, t2, e.t))

\* data.reshape(-1, 12, ...): row y holds entries 12y .. 12y+11
ReshapeOk(c) == Len(c) % CYCLE = 0

Reshape(c) ==
    [y \in 1..(Len(c) \div CYCLE) |-> [k \in 1..CYCLE |-> c[(y - 1) * CYCLE + k]]]

Column(d, k) == [y \in 1..Len(d) |-> d[y][k]]

\* np.ma.count(., axis=0)
MaCount(col) == Cardinality({i \in 1..Len(col) : ~col[i].m})

\* the sum of the non-masked samples col[lo..hi], added up pairwise
RECURSIVE MaSumRange(_, _, _)
MaSumRange(col, lo, hi) ==
    IF lo > hi THEN RatZero
    ELSE IF lo = hi THEN (IF col[lo].m THEN RatZero ELSE col[lo].v)
    ELSE LET mid == (lo + hi) \div 2
         IN  RatAdd(MaSumRange(col, lo, mid), MaSumRange(col, mid + 1, hi))

MaSum(col) == MaSumRange(col, 1, Len(col))

RatOverInt(a, k) == Rat(a.n, a.d * k)

MaMeanZeroFill(col) ==
    IF MaCount(col) = 0 THEN [v |-> RatZero, m |-> TRUE]
    ELSE [v |-> RatOverInt(MaSum(col), Len(col)), m |-> FALSE]

\* np.ma.mean(., axis=0): the mean of the non-masked samples, masked when
\* there is none
MaMean(col) ==
    IF MaCount(col) = 0 THEN [v |-> RatZero, m |-> TRUE]
    ELSE [v |-> RatOverInt(MaSum(col), MaCount(col)), m |-> FALSE]

TooFewYearsStrict(n) == n < MIN_YEARS

\* nyears <= 15
TooFewYears(n) == n <= MIN_YEARS

TooFewMonthsStrict(n) == n < MIN_MONTHS

TooFewMonthsLoose(n) == n <= MIN_MONTHS + 1

\* nmonths <= 6
TooFewMonths(n) == n <= MIN_MONTHS

\* np.ma.masked_where(cond, x): masked where cond holds or x is masked
MaskedWhere(cond, x) == [v |-> x.v, m |-> x.m \/ cond]

\* x - c on masked arrays: masked where either operand is
Anomaly(x, c) ==
    [t |-> x.t, v |-> IF x.m \/ c.m THEN RatZero ELSE RatSub(x.v, c.v),
     m |-> x.m \/ c.m, ck |-> c.k]

TileRepsFloor(n) == n \div CYCLE

\* (cube.data.shape[0] / 12) + 1, an integer division in Python 2
TileReps(n) == (n \div CYCLE) + 1

\* np.tile(climatology, (reps, 1, 1))
RECURSIVE Tile(_, _)
Tile(c, reps) ==
    IF reps = 0 THEN <<>>
    ELSE IF reps = 1 THEN c
    ELSE Tile(c, reps \div 2) \o Tile(c, reps - (reps \div 2))

\* a[0:n]: the first n entries, or all of them when there are fewer
Truncate(a, n) == SubSeq(a, 1, IF n <= Len(a) THEN n ELSE Len(a))

PipeBlank ==
    /\ clim_cube = <<>>
    /\ clim_data = <<>>
    /\ nyears = <<>>
    /\ final_year = <<>>
    /\ annual = [v |-> RatZero, m |-> TRUE]
    /\ nmonths = 0
    /\ clim_tiled = <<>>
    /\ anoms = <<>>
    /\ p_err = ""

\* run_all_plots not running
PipeIdle ==
    /\ p_pc = "off"
    /\ cube = <<>>
    /\ climatology = <<>>
    /\ PipeBlank

PipeFail(e) ==
    /\ p_pc' = "error"
    /\ p_err' = e

\* cube = cube.extract(1900-01-01 <= time < (YEAR+1)-01-01)
PipeExtract ==
    /\ p_pc = "extract"
    /\ cube' = Extract(cube, Jan(START_YEAR), Jan(YEAR + 1))
    /\ p_pc' = "clim"
    /\ UNCHANGED <<clim_cube, clim_data, climatology, nyears, final_year, annual,
                   nmonths, clim_tiled, anoms, p_err>>
    /\ UNCHANGED pipeOthers

\* clim_cube = cube.extract(1981 <= time < 2011); clim_data = reshape(-1, 12, ..)
PipeClim ==
    /\ p_pc = "clim"
    /\ IF cube = <<>>
       THEN /\ PipeFail("AttributeError")
            /\ UNCHANGED <<clim_cube, clim_data>>
       ELSE LET c == Extract(cube, Jan(CLIM_START), Jan(CLIM_END)) IN
            /\ clim_cube' = c
            /\ IF c = <<>>
               THEN /\ PipeFail("AttributeError")
                    /\ UNCHANGED clim_data
               ELSE IF ~ReshapeOk(c)
               THEN /\ PipeFail("ValueError")
                    /\ UNCHANGED clim_data
               ELSE /\ clim_data' = Reshape(c)
                    /\ p_pc' = "mean"
                    /\ UNCHANGED p_err
    /\ UNCHANGED <<cube, climatology, nyears, final_year, annual, nmonths,
                   clim_tiled, anoms>>
    /\ UNCHANGED pipeOthers

\* climatology = np.ma.mean(clim_data, axis=0); nyears = np.ma.count(..)
\* climatology = np.ma.masked_where(nyears <= 15, climatology)
PipeMean ==
    /\ p_pc = "mean"
    /\ nyears' = [k \in 1..CYCLE |-> MaCount(Column(clim_data, k))]
    /\ climatology' =
          [k \in 1..CYCLE |->
              LET mean == MaMean(Column(clim_data, k))
                  kept == MaskedWhere(TooFewYears(MaCount(Column(clim_data, k))), mean)
              IN  [k |-> k - 1, v |-> kept.v, m |-> kept.m]]
    /\ p_pc' = "final"
    /\ UNCHANGED <<cube, clim_cube, clim_data, final_year, annual, nmonths,
                   clim_tiled, anoms, p_err>>
    /\ UNCHANGED pipeOthers

\* final_year_cube = cube.extract(YEAR <= time < YEAR+1)
\* final_year_cube.data = final_year_cube.data - climatology
PipeFinal ==
    /\ p_pc = "final"
    /\ LET f == Extract(cube, Jan(YEAR), Jan(YEAR + 1)) IN
        IF f = <<>>
        THEN /\ PipeFail("AttributeError")
             /\ UNCHANGED final_year
        ELSE IF Len(f) # CYCLE
        THEN /\ PipeFail("ValueError")
             /\ UNCHANGED final_year
        ELSE /\ final_year' = [i \in 1..CYCLE |-> Anomaly(f[i], climatology[i])]
             /\ p_pc' = "annual"
             /\ UNCHANGED p_err
    /\ UNCHANGED <<cube, clim_cube, clim_data, climatology, nyears, annual, nmonths,
                   clim_tiled, anoms>>
    /\ UNCHANGED pipeOthers

\* annual_cube = final_year_cube.collapsed(['time'], MEAN)
\* nmonths = np.ma.count(final_year_cube.data, axis=0)
\* annual_cube.data = np.ma.masked_where(nmonths <= 6, annual_cube.data)
PipeAnnual ==
    /\ p_pc = "annual"
    /\ nmonths' = MaCount(final_year)
    /\ annual' = MaskedWhere(TooFewMonths(MaCount(final_year)), MaMean(final_year))
    /\ p_pc' = "tile"
    /\ UNCHANGED <<cube, clim_cube, clim_data, climatology, nyears, final_year,
                   clim_tiled, anoms, p_err>>
    /\ UNCHANGED pipeOthers

\* climatology = np.tile(climatology, ((n / 12) + 1, 1, 1))
\* anoms.data = anoms.data - climatology[0:n, :, :]
PipeTile ==
    /\ p_pc = "tile"
    /\ LET n == Len(cube)
           tiled == Truncate(Tile(climatology, TileReps(n)), n)
       IN /\ clim_tiled' = tiled
          /\ IF Len(tiled) # n
             THEN /\ PipeFail("ValueError")
                  /\ UNCHANGED anoms
             ELSE /\ anoms' = [i \in 1..n |-> Anomaly(cube[i], tiled[i])]
                  /\ p_pc' = "done"
                  /\ UNCHANGED p_err
    /\ UNCHANGED <<cube, clim_cube, clim_data, climatology, nyears, final_year,
                   annual, nmonths>>
    /\ UNCHANGED pipeOthers

\* ------------------------------------------------------------------------
\* The input series the model draws from
\* ------------------------------------------------------------------------
\* The value of month t of a synthetic series, in hPa: it differs from
\* month to month and from year to year.
SampleValue(t) == Rat(100000 + 50 * (t % 12) + 25 * ((t \div 12) % 5), 100)

\* -999.0, the value a missing-data sentinel would have
SentinelValue == Rat(-99900, 100)

\* The most reference years (counted back from 2010) in which one calendar
\* month is masked.
MaxRefMasked == 2

\* How many leading months of the final year are masked.
FinalMaskedCounts == {0, 5, 6, 7, 12}

FirstMonths ==
    { Jan(2006), Jan(1996), Jan(1995), Jan(1994), Jan(1980) + 2, Jan(1995) + 2,
      Jan(2011), Jan(2017) }

LastMonths == { Jan(2016) + 11, Jan(2016) + 10, Jan(2015) + 11, Jan(2017) + 5 }

AbsentSets == { {}, {Jan(2012) + 5} }

\* The series of the months first..last that are not absent; month mm of the
\* last rm reference years and the first fm months of YEAR are masked, and
\* with sent June 2010 holds the sentinel value, not masked.
MakeCube(first, last, absent, mm, rm, fm, sent) ==
    LET all  == [i \in 1..(last - first + 1) |-> first + i - 1]
        kept == SelectSeq(all, LAMBDA t : t \notin absent)
    IN  [i \in 1..Len(kept) |->
            LET t == kept[i] IN
            [t |-> t,
             v |-> IF sent /\ t = Jan(CLIM_END - 1) + 5 THEN SentinelValue
                   ELSE SampleValue(t),
             m |-> \/ (MonthOf(t) = mm /\ Jan(CLIM_END - rm) <= t /\ t < Jan(CLIM_END))
                   \/ (Jan(YEAR) <= t /\ t < Jan(YEAR) + fm)]]

\* The longest target series of the tiling step taken on its own.
MaxTarget == 30

\* A climatology whose 12 entries hold distinct markers, one of them masked
\* (none for k = CYCLE).
MarkerClimatology(masked) ==
    [k \in 1..CYCLE |-> [k |-> k - 1, v |-> Rat(1000 + k, 1), m |-> (k - 1 = masked)]]

NextPipe == PipeExtract \/ PipeClim \/ PipeMean \/ PipeFinal \/ PipeAnnual \/ PipeTile

NextTile == PipeTile

\* ========================================================================
\* Specifications
\* ========================================================================
NextGrid == GridRead \/ GridLoopRow \/ GridLoopScalar \/ GridLoopEnd \/ GridMaskReturn

InitSpecGrid ==
    /\ InitGrid
    /\ HadIdle
    /\ PipeIdle
    /\ SoiIdle

SpecGrid == InitSpecGrid /\ [][NextGrid]_vars

InitSpecHad ==
    /\ InitHad
    /\ GridIdle
    /\ PipeIdle
    /\ SoiIdle

SpecHad == InitSpecHad /\ [][NextHad]_vars

InitSpecPipe ==
    /\ p_pc = "extract"
    /\ \E first \in FirstMonths, last \in LastMonths, absent \in AbsentSets,
          mm \in {0, 11}, rm \in 0..MaxRefMasked, fm \in FinalMaskedCounts,
          sent \in BOOLEAN :
            cube = MakeCube(first, last, absent, mm, rm, fm, sent)
    /\ climatology = <<>>
    /\ PipeBlank
    /\ GridIdle
    /\ HadIdle
    /\ SoiIdle

SpecPipe == InitSpecPipe /\ [][NextPipe]_vars

\* The tiling step on its own, for every target length 0..MaxTarget.
InitSpecTile ==
    /\ p_pc = "tile"
    /\ \E n \in 0..MaxTarget, first \in {Jan(2000), Jan(2000) + 11} :
          cube = MakeCube(first, first + n - 1, {}, 0, 0, 0, FALSE)
    /\ \E masked \in 0..CYCLE : climatology = MarkerClimatology(masked)
    /\ PipeBlank
    /\ GridIdle
    /\ HadIdle
    /\ SoiIdle

SpecTile == InitSpecTile /\ [][NextTile]_vars

InitSpecSoi ==
    /\ InitSoi
    /\ GridIdle
    /\ HadIdle
    /\ PipeIdle

SpecSoi == InitSpecSoi /\ [][NextSoi]_vars

\* ------------------------------------------------------------------------
\* Claims about read_data
\* ------------------------------------------------------------------------
TokenCount(rows) == Len(Flatten(rows))

\* rows of equal width w, w dividing n_lon, n_lat*n_lon tokens in total
ValidDump(rows) ==
    /\ ~Ragged(rows)
    /\ Len(rows) > 0
    /\ Len(rows[1]) > 0
    /\ NLon % Len(rows[1]) = 0
    /\ TokenCount(rows) = NLat * NLon

\* cell (i, j) holds token i*n_lon + j, masked iff the token is <= -999
CellsAsStream(rows) ==
    \A c \in Cells :
        LET tok == Flatten(rows)[c[1] * NLon + c[2] + 1] IN
            /\ data[c].v = tok
            /\ data[c].m = (tok <= SENTINEL)

\* C1: read_data returns a grid only if exactly n_lat bands were committed,
\* the accumulator is empty and the tokens exactly fill the shape; every
\* other input ends in an error.
C1_ReturnsOnlyFullGrid ==
    g_pc = "done" =>
        /\ tl = NLat
        /\ this_lat = <<>>
        /\ TokenCount(g_file) = NLat * NLon

\* C2: every valid dump is parsed (no exception) into the grid whose cell
\* (i, j) is token i*n_lon + j of the stream, masked iff token <= -999.
C2_ValidDumpParsed ==
    ValidDump(g_file) =>
        /\ g_pc # "error"
        /\ (g_pc = "done" => CellsAsStream(g_file))

\* What read_data does on the valid dumps whose rows hold two or more
\* tokens (the array genfromtxt returns is then two-dimensional).
GridValidWideParsed ==
    (ValidDump(g_file) /\ Len(g_file[1]) >= 2) =>
        /\ g_pc # "error"
        /\ (g_pc = "done" => CellsAsStream(g_file))

\* ------------------------------------------------------------------------
\* Claims about read_hadslp
\* ------------------------------------------------------------------------
\* A header line as the format defines it: exactly two numeric tokens.
IsHeader(line) == Len(line) = 2 /\ line[1].num /\ line[2].num

HeaderLines == SelectSeq(infile, IsHeader)

StrictlyIncreasing(s) == \A i \in 1..(Len(s) - 1) : s[i] < s[i + 1]

\* (year, month) as a count of months
MonthIndex(y, m) == 12 * y + (m - 1)

\* C3: every series read_hadslp returns has headers strictly increasing in
\* (year, month), hence strictly increasing day offsets; any other input
\* is rejected.
C3_ReturnedSeriesIncreasing ==
    h_pc = "done" =>
        /\ StrictlyIncreasing([i \in 1..Len(years) |-> MonthIndex(years[i], months[i])])
        /\ StrictlyIncreasing(times)

\* The length of calendar month number i (counted from January of year 0).
MonthLength(i) ==
    LET y == i \div 12
        m == (i % 12) + 1
    IN  IF m = 2 THEN (IF IsLeap(y) THEN 29 ELSE 28)
        ELSE IF m \in {4, 6, 9, 11} THEN 30 ELSE 31

\* The signed number of calendar days from the first day of month a to the
\* first day of month b: the lengths of the months in between, added up.
DaysOfMonths(a, b) ==
    LET lo == IF a <= b THEN a ELSE b
        hi == IF a <= b THEN b ELSE a
        between == lo..(hi - 1)
        n(len) == Cardinality({i \in between : MonthLength(i) = len})
        total == 28 * n(28) + 29 * n(29) + 30 * n(30) + 31 * n(31)
    IN  IF a <= b THEN total ELSE -total

\* C4: the timestamp of block k is the number of calendar days from the
\* first day of the first header's month to the first day of header k's
\* month, with real month lengths and leap years; headers (2015,12),
\* (2016,1) give [0, 31].
C4_DayOffsetsAreCalendarDays ==
    h_pc = "done" =>
        /\ Len(times) = Len(years)
        /\ \A k \in 1..Len(years) :
              times[k] = DaysOfMonths(MonthIndex(years[1], months[1]),
                                      MonthIndex(years[k], months[k]))
        /\ (years = <<2015, 2016>> /\ months = <<12, 1>>) => times = <<0, 31>>

\* a returned series whose two headers are December 2015 and January 2016
C4_Witness ==
    /\ h_pc = "done"
    /\ years = <<2015, 2016>>
    /\ months = <<12, 1>>
    /\ times = <<0, 31>>

\* C5: a line that is not a header, read before any header has been seen,
\* ends the parse in an error; an input without any header returns no
\* series.
C5_NonHeaderBeforeHeaderFails ==
    /\ (\E i \in 1..Len(infile) :
            /\ ~IsHeader(infile[i])
            /\ \A j \in 1..(i - 1) : ~IsHeader(infile[j]))
        => h_pc = "error"
    /\ (HeaderLines = <<>> /\ h_pc # "loop") => h_pc = "error"

\* a body row read as the first line of the input: the parse has failed
C5_Witness ==
    /\ Len(infile) = 1
    /\ Len(infile[1]) = 3
    /\ AllNumerals(<<infile>>)
    /\ h_pc = "error"
    /\ h_err = "UnboundLocalError"

\* ------------------------------------------------------------------------
\* Claims about the climatology and the anomalies (run_all_plots)
\* ------------------------------------------------------------------------
\* the climatology has been computed from clim_cube
ClimatologyComputed == p_pc \in {"final", "annual", "tile", "done"} \/ (p_pc = "error" /\ nyears # <<>>)

\* The reference-period entries that fall on cycle position k (0-based).
RefSamples(k) == {j \in 1..Len(clim_cube) : (j - 1) % CYCLE = k}

NonMasked(k) == {j \in RefSamples(k) : ~clim_cube[j].m}

\* A sample in hundredths of a unit (every input value is a whole number of
\* hundredths).
Centi(x) == x.n * (100 \div x.d)

RECURSIVE CentiSum(_)
CentiSum(S) ==
    IF S = {} THEN 0
    ELSE LET j == CHOOSE j \in S : TRUE IN Centi(clim_cube[j].v) + CentiSum(S \ {j})

\* C6: a (sub-period, cell) mean is masked if and only if its count of
\* non-masked contributing years is <= min_years (15).
C6_MaskedIffAtMostMinYears ==
    ClimatologyComputed =>
        \A k \in 0..(CYCLE - 1) :
            climatology[k + 1].m <=> (Cardinality(NonMasked(k)) <= MIN_YEARS)

\* one calendar month with exactly 15 contributing years, masked, next to
\* one with 16, not masked
C6_Witness ==
    /\ ClimatologyComputed
    /\ \E k1, k2 \in 0..(CYCLE - 1) :
          /\ Cardinality(NonMasked(k1)) = MIN_YEARS
          /\ climatology[k1 + 1].m
          /\ Cardinality(NonMasked(k2)) = MIN_YEARS + 1
          /\ ~climatology[k2 + 1].m

IsSentinel(x) == x.n <= -999 * x.d

NonMissing(k) == {j \in NonMasked(k) : ~IsSentinel(clim_cube[j].v)}

C8_TiledToTargetLength ==
    /\ p_pc # "error"
    /\ p_pc = "done" =>
          /\ Len(clim_tiled) = Len(cube)
          /\ Len(anoms) = Len(cube)
          /\ \A i \in 1..Len(cube) :
                /\ clim_tiled[i] = climatology[((i - 1) % CYCLE) + 1]
                /\ anoms[i].ck = (i - 1) % CYCLE
                /\ anoms[i].t = cube[i].t

\* a 30-month target: its last entry is paired with cycle position 5
C8_Witness ==
    /\ p_pc = "done"
    /\ Len(cube) = 30
    /\ Len(clim_tiled) = 30
    /\ anoms[30].ck = 5
    /\ clim_tiled[30].v = Rat(1006, 1)

\* C9: every target entry is subtracted by the climatology entry of its own
\* calendar month: the reference samples behind the entry it is paired
\* with are all of the target entry's calendar month.
C9_SubtractsOwnMonth ==
    p_pc = "done" =>
        \A i \in 1..Len(anoms) : \A j \in RefSamples(anoms[i].ck) :
            MonthOf(clim_cube[j].t) = MonthOf(cube[i].t)

\* The final year's entries of the series.
FinalYearEntries == Extract(cube, Jan(YEAR), Jan(YEAR + 1))

\* The months of the final year whose anomaly is not masked: the target
\* value and the climatology entry at its calendar month's cycle position
\* are both non-masked.
NonMaskedAnomalies ==
    {i \in 1..Len(FinalYearEntries) :
        /\ ~FinalYearEntries[i].m
        /\ ~climatology[MonthOf(FinalYearEntries[i].t) + 1].m}

\* C10: the annual anomaly is masked if and only if the number of
\* non-masked monthly anomalies of the year is <= min_observations (6).
C10_AnnualMaskedIffAtMostMinMonths ==
    p_pc \in {"tile", "done"} =>
        /\ nmonths = Cardinality(NonMaskedAnomalies)
        /\ annual.m <=> (Cardinality(NonMaskedAnomalies) <= MIN_MONTHS)

\* exactly 6 non-masked anomalies, one month lost to a masked climatology
\* entry alone: the annual mean is masked
C10_Witness ==
    /\ p_pc = "done"
    /\ Cardinality(NonMaskedAnomalies) = MIN_MONTHS
    /\ annual.m
    /\ \E i \in 1..CYCLE : ~FinalYearEntries[i].m /\ climatology[i].m

\* The number of masked monthly anomalies of the final year.
MaskedAnomalies == Len(FinalYearEntries) - Cardinality(NonMaskedAnomalies)

\* The annual mean as line 379 masks it with another threshold in place of
\* the 6.
AnnualWithThreshold(min) == MaskedWhere(nmonths <= min, MaMean(final_year))

\* C11 as stated: with 7 of the 12 monthly anomalies masked the annual mean
\* is unmasked for min_observations = 6 and masked for min_observations = 7.
C11_SevenMaskedUnmasked ==
    (p_pc \in {"tile", "done"} /\ Len(final_year) = CYCLE /\ MaskedAnomalies = 7) =>
        /\ ~annual.m
        /\ AnnualWithThreshold(MIN_MONTHS + 1).m

\* C11 as amended: with 7 of the 12 monthly anomalies NON-masked (5 masked)
\* the annual mean is unmasked for min_observations = 6 and masked for
\* min_observations = 7; with 7 of them masked, 5 remain and the annual
\* mean is masked for both thresholds.
C11_SevenNonMaskedUnmasked ==
    (p_pc \in {"tile", "done"} /\ Len(final_year) = CYCLE) =>
        /\ (Cardinality(NonMaskedAnomalies) = 7) =>
              /\ ~annual.m
              /\ AnnualWithThreshold(MIN_MONTHS + 1).m
        /\ (MaskedAnomalies = 7) =>
              /\ annual.m
              /\ AnnualWithThreshold(MIN_MONTHS + 1).m

\* a final year with 5 masked and 7 non-masked anomalies: the annual mean
\* is not masked
C11_Witness ==
    /\ p_pc = "done"
    /\ Len(final_year) = CYCLE
    /\ MaskedAnomalies = 5
    /\ nmonths = 7
    /\ ~annual.m

\* The series restricted to the reference period.
RestrictedSeries == Extract(cube, Jan(CLIM_START), Jan(CLIM_END))

\* the computation of the climatology has ended in an error
ClimatologyFailed == p_pc = "error" /\ nyears = <<>> /\ final_year = <<>>

\* C12: the climatology computation ends in an error only when the series
\* restricted to the reference period is empty; every non-empty restricted
\* series, also one whose length is not a multiple of 12, gives a
\* climatology with the insufficiency expressed by masking.
C12_ErrorOnlyWhenEmpty ==
    ClimatologyFailed => RestrictedSeries = <<>>

\* ------------------------------------------------------------------------
\* Claims about read_soi
\* ------------------------------------------------------------------------
\* An SOI-style file whose final row is incomplete: every row before the
\* last holds a year and 12 monthly values, the years go up one by one, and
\* the last row holds fewer columns.
ShortFinalRow(rows) ==
    /\ Len(rows) >= 2
    /\ \A r \in 1..(Len(rows) - 1) : Len(rows[r]) = PERIODS_PER_YEAR + 1
    /\ \A r \in 1..(Len(rows) - 2) : rows[r + 1][1] = rows[r][1] + 1
    /\ Len(rows[Len(rows)]) < PERIODS_PER_YEAR + 1

\* the series of the first N-1 rows: 12 values a row, as many times
RecoveredSeries(rows) ==
    /\ soi_tries = 2
    /\ soi_data = Flatten([r \in 1..(Len(rows) - 1) |-> Tail(rows[r])])
    /\ Len(soi_data) = (Len(rows) - 1) * PERIODS_PER_YEAR
    /\ Len(soi_times) = Len(soi_data)

\* C13: a file of N data rows whose final row has fewer columns than the
\* rows before it does not fail: the strict parse fails, one retry without
\* the final row follows, and the series returned has (N-1) * 12 values and
\* as many times.
C13_ShortFinalRowRecovered ==
    ShortFinalRow(soi_file) =>
        /\ soi_pc # "error"
        /\ (soi_pc = "done" => RecoveredSeries(soi_file))

\* What read_soi does when at least two complete rows stand before the
\* incomplete final row.
SoiShortFinalRowRecoveredFromThreeRows ==
    (ShortFinalRow(soi_file) /\ Len(soi_file) >= 3) =>
        /\ soi_pc # "error"
        /\ (soi_pc = "done" => RecoveredSeries(soi_file))

\* ------------------------------------------------------------------------
\* Claims about the blocks of read_hadslp
\* ------------------------------------------------------------------------
\* The line numbers of the header lines, in input order.
HeaderPositions ==
    SelectSeq([i \in 1..Len(infile) |-> i], LAMBDA i : IsHeader(infile[i]))

\* The body lines between header k and the next header (or the end of the
\* lines read so far), in input order.
BodyOf(k) ==
    LET from == HeaderPositions[k] + 1
        to   == IF k < Len(HeaderPositions) THEN HeaderPositions[k + 1] - 1
                ELSE Len(infile)
    IN  SubSeq(infile, from, to)

\* the whole input has been consumed without an error
InputConsumed == h_pc \in {"convert", "times", "done"}

\* C14: with H header lines, the first on the first line, the result has
\* exactly H blocks, block k holding exactly the body lines between header
\* k and header k+1 (the end of input for the last) in input order and
\* paired with header k; while lines are still being read the closed blocks
\* are those of the headers before the last and the open block is the last
\* header's.
C14_BlocksPairedWithHeaders ==
    (Len(infile) >= 1 /\ IsHeader(infile[1])) =>
        /\ InputConsumed =>
              /\ Len(all_months) = Len(HeaderPositions)
              /\ Len(years) = Len(HeaderPositions)
              /\ Len(months) = Len(HeaderPositions)
              /\ \A k \in 1..Len(HeaderPositions) :
                    /\ all_months[k] = BodyOf(k)
                    /\ years[k] = infile[HeaderPositions[k]][1].v
                    /\ months[k] = infile[HeaderPositions[k]][2].v
        /\ h_pc = "loop" =>
              /\ Len(all_months) = Len(HeaderPositions) - 1
              /\ \A k \in 1..(Len(HeaderPositions) - 1) : all_months[k] = BodyOf(k)
              /\ this_month.rows = BodyOf(Len(HeaderPositions))

\* two headers, each followed by a body row: two blocks of one row each
C14_Witness ==
    /\ InputConsumed
    /\ Len(infile) = 4
    /\ HeaderPositions = <<1, 3>>
    /\ all_months = << <<infile[2]>>, <<infile[4]>> >>
    /\ Len(infile[2]) = 3
    /\ Len(infile[4]) = 3

\* the blocks have been converted to the array of the cube
BlocksConverted == h_pc \in {"times", "done"}

\* C15: for every block t of R body rows of C integer tokens the output has
\* shape (C, R) for that block and output[t][c][R-1-r] = raw[t][r][c] / 100
\* (0-based): rows and columns are swapped and only the row (latitude) axis
\* is reversed, the column (longitude) order is unchanged.
C15_TransposedLatitudeReversed ==
    (BlocksConverted /\ IsHeader(infile[1])) =>
        LET nb == Len(HeaderPositions)
            R  == Len(BodyOf(1))
            C  == Len(BodyOf(1)[1])
        IN  /\ hpa.shape = <<nb, C, R>>
            /\ Len(hpa.a) = nb
            /\ \A t \in 1..nb :
                  /\ Len(BodyOf(t)) = R
                  /\ Len(hpa.a[t]) = C
                  /\ \A c \in 1..C :
                        /\ Len(hpa.a[t][c]) = R
                        /\ \A r \in 1..R :
                              hpa.a[t][c][R + 1 - r] = Rat(BodyOf(t)[r][c].v, 100)

\* one block of two rows of three tokens: the output is 3 by 2, the first
\* output latitude of a longitude is the token of the second source row
C15_Witness ==
    /\ h_pc = "done"
    /\ Len(infile) = 3
    /\ hpa.shape = <<1, 3, 2>>
    /\ hpa.a[1][1][1] = Rat(infile[3][1].v, 100)
    /\ hpa.a[1][1][2] = Rat(infile[2][1].v, 100)
    /\ hpa.a[1][3][1] = Rat(infile[3][3].v, 100)
    /\ infile[3][1].v # infile[2][1].v

\* The strict parse fails: the rows do not all have the same width.
StrictParseFails(rows) == Ragged(rows)

\* The final row is incomplete: the rows before it agree in width and the
\* final row holds fewer columns.
IncompleteFinalRow(rows) ==
    /\ Len(rows) >= 2
    /\ ~Ragged(SkipFooter(rows, 1))
    /\ Len(rows[Len(rows)]) < Len(rows[1])

\* the values of the data columns of the given rows, flattened
DataOf(rows) == Flatten([r \in 1..Len(rows) |-> Tail(rows[r])])

\* C16: the parse is retried at most once and drops at most the final row;
\* whenever the strict parse fails for a reason other than an incomplete
\* final row, read_soi ends in an error and returns no series.
C16_RetryOnlyForIncompleteFinalRow ==
    /\ soi_tries <= 2
    /\ soi_pc = "done" =>
          \/ soi_data = DataOf(soi_file)
          \/ soi_data = DataOf(SkipFooter(soi_file, 1))
    /\ (StrictParseFails(soi_file) /\ ~IncompleteFinalRow(soi_file)) => soi_pc # "done"

\* read_soi has returned a series read from rows of a year and 12 monthly
\* columns
TwelveColumnSeries ==
    /\ soi_pc = "done"
    /\ Len(all_data.rows[1]) = PERIODS_PER_YEAR + 1

\* the time of entry k (0-based) of row r is year(r) + k/12, in twelfths
TimesFollowRowYears ==
    /\ Len(soi_times) = Len(soi_data)
    /\ \A r \in 1..Len(soi_years) : \A k \in 0..(PERIODS_PER_YEAR - 1) :
          soi_times[PERIODS_PER_YEAR * (r - 1) + k + 1] = PERIODS_PER_YEAR * soi_years[r] + k
    /\ StrictlyIncreasing(soi_times)

\* C17: for every accepted file of 12 monthly columns per annual row the
\* time of entry k of row r is year(r) + k/12, the flattened times are
\* strictly increasing and there are as many times as values, for every
\* sequence of row years the parser accepts, consecutive or not.
C17_TimesFollowRowYears ==
    TwelveColumnSeries => TimesFollowRowYears

\* What read_soi returns when the row years go up one by one.
SoiTimesFollowConsecutiveYears ==
    (TwelveColumnSeries /\ \A r \in 1..(Len(soi_years) - 1) : soi_years[r + 1] = soi_years[r] + 1)
        => TimesFollowRowYears

====
